---- MODULE Spec2Model ----
(***************************************************************************)
(* Razer Naga low-level driver (librazer/hw_naga.c): the driver state kept *)
(* in struct naga_private, the staged "pending change, explicit commit"    *)
(* machine, and the command exchanges a commit performs over the USB       *)
(* control-transfer transport.                                             *)
(*                                                                         *)
(* Every entry point of the driver is one action.  What the transport and  *)
(* the caller decide (the result of each libusb_control_transfer, the      *)
(* arguments of a call) is an input of the action, drawn with \E.          *)
(***************************************************************************)
EXTENDS Integers, Sequences, FiniteSets, TLC

VARIABLES
    attached,     \* m->drv_data points to a live struct naga_private
    claim_count,  \* m->claim_count
    priv,         \* struct naga_private
    last          \* the call whose result the caller holds (NoCall when it
                  \* holds none): what the call was given, what it
                  \* returned, what it put on the wire

vars == <<attached, claim_count, priv, last>>

----------------------------------------------------------------------------
(* Constants of the program *)

NAGA_LED_SCROLL == 0
NAGA_LED_LOGO == 1
NAGA_LED_THUMB_GRID == 2
NAGA_NR_LEDS == 3

NAGA_5600_NR_DPIMAPPINGS == 56
NAGA_8200_NR_DPIMAPPINGS == 82
NAGA_NR_AXES == 3

\* enum razer_led_state
RAZER_LED_OFF == 0
RAZER_LED_ON == 1
RAZER_LED_UNKNOWN == 2

\* enum razer_mouse_freq
RAZER_MOUSE_FREQ_UNKNOWN == 0
RAZER_MOUSE_FREQ_125HZ == 125
RAZER_MOUSE_FREQ_500HZ == 500
RAZER_MOUSE_FREQ_1000HZ == 1000

\* errno
EIO == 5
ENOMEM == 12
EBUSY == 16
ENODEV == 19
EINVAL == 22

\* sizeof(struct naga_command)
CmdSize == 90

\* attempts of the firmware probe and of one read
FwTries == 5
ReadTries == 3

\* USB product ids (hw_naga.h); only their identity matters here
RAZER_NAGA_PID_CLASSIC == "CLASSIC"
RAZER_NAGA_PID_EPIC == "EPIC"
RAZER_NAGA_PID_2012 == "2012"
RAZER_NAGA_PID_HEX == "HEX"
RAZER_NAGA_PID_HEX_V2 == "HEX_V2"
RAZER_NAGA_PID_2014 == "2014"

ProductIds ==
    { RAZER_NAGA_PID_CLASSIC, RAZER_NAGA_PID_EPIC, RAZER_NAGA_PID_2012,
      RAZER_NAGA_PID_HEX, RAZER_NAGA_PID_HEX_V2, RAZER_NAGA_PID_2014 }

\* the two resolution command builders a device can be given
INIT_RESOLUTION_5600 == "naga_command_init_resolution_5600"
INIT_RESOLUTION_8200 == "naga_command_init_resolution_8200"

\* naga_leds[].values
naga_leds ==
    [ id \in 0 .. (NAGA_NR_LEDS - 1) |->
        CASE id = NAGA_LED_SCROLL -> <<1, 1>>
          [] id = NAGA_LED_LOGO -> <<1, 4>>
          [] id = NAGA_LED_THUMB_GRID -> <<1, 5>> ]

----------------------------------------------------------------------------
(* Bounds of the model *)

\* the claim counter is capped here (the caller's claims nest no deeper)
MaxClaims == 1
\* a transfer that moved some but not all of the packet
ShortCount == 45
\* a frequency value outside enum razer_mouse_freq
BadFreq == 250
\* LED ids, LED states and axis ids offered to the setters: 0 .. Max
MaxLedId == 3
MaxLedState == 3
MaxAxisId == 3
\* the DPI mapping slot (besides the last of the table) offered to set_dpimapping
SlotArg == 4
\* a firmware version word with a non-zero high byte (1.04), and one with a
\* zero high byte
FwGood == 260
FwZeroHigh == 4
\* a response status byte outside {0, 1, 2}
BadStatus == 3

----------------------------------------------------------------------------
(* Command packets: struct naga_command, without its padding *)

\* naga_command_init: memset(cmd, 0, sizeof(*cmd))
naga_command_init ==
    [ status |-> 0, command |-> 0, request |-> 0, values |-> <<0, 0, 0, 0, 0>> ]

\* priv->dpimapping[i].res[RAZER_DIM_0], as razer_naga_init fills the table
dpimapping_res(i) == (i + 1) * 100

\* a uint8_t field keeps the low 8 bits of what is stored in it
U8(n) == n % 256

\* naga_command_init_resolution_5600 with a scale factor of 8
naga_command_init_resolution_5600_by_8(p) ==
    LET xres == ((dpimapping_res(p.cur_dpimapping_X) \div 100) - 1) * 8
        yres == ((dpimapping_res(p.cur_dpimapping_Y) \div 100) - 1) * 8
    IN  [ naga_command_init EXCEPT
            !.command = 3,
            !.request = 1025,
            !.values = <<U8(xres), U8(yres), 0, 0, 0>> ]

naga_command_init_resolution_5600(p) ==
    LET xres == ((dpimapping_res(p.cur_dpimapping_X) \div 100) - 1) * 4
        yres == ((dpimapping_res(p.cur_dpimapping_Y) \div 100) - 1) * 4
    IN  [ naga_command_init EXCEPT
            !.command = 3,       \* 0x0003
            !.request = 1025,    \* 0x0401
            !.values = <<U8(xres), U8(yres), 0, 0, 0>> ]

naga_command_init_resolution_8200(p) ==
    LET xres == dpimapping_res(p.cur_dpimapping_X) % 65536
        yres == dpimapping_res(p.cur_dpimapping_Y) % 65536
    IN  [ naga_command_init EXCEPT
            !.command = 7,       \* 0x0007
            !.request = 1029,    \* 0x0405
            !.values = <<0, xres \div 256, xres % 256,
                            yres \div 256, yres % 256>> ]

\* priv->command_init_resolution(&cmd, priv)
command_init_resolution(p) ==
    IF p.command_init_resolution = INIT_RESOLUTION_8200
    THEN naga_command_init_resolution_8200(p)
    ELSE naga_command_init_resolution_5600(p)

\* the LED command naga_do_commit builds for led_id
led_command(p, led_id) ==
    [ naga_command_init EXCEPT
        !.command = 3,           \* 0x0003
        !.request = 768,         \* 0x0300
        !.values = << naga_leds[led_id][1], naga_leds[led_id][2],
                      IF p.led_states[led_id] # 0 THEN 1 ELSE 0, 0, 0 >> ]

\* the frequency command naga_do_commit builds for device code freq
freq_command(freq) ==
    [ naga_command_init EXCEPT
        !.command = 1,           \* 0x0001
        !.request = 5,           \* 0x0005
        !.values = <<freq, 0, 0, 0, 0>> ]

\* the firmware version query naga_read_fw_ver builds
fw_ver_command ==
    [ naga_command_init EXCEPT
        !.command = 2,           \* 0x0002
        !.request = 129 ]        \* 0x0081

----------------------------------------------------------------------------
(* Command channel.  One exchange is given by what the transport does with *)
(* it: x.w is the result of the write transfer, x.r[i] the result of the   *)
(* i-th read transfer (if it is made), x.status and x.ver the status byte  *)
(* and the 16-bit word in values[0..1] of the packet the device answers.   *)

\* results of libusb_control_transfer: an error, nothing moved, part of the
\* packet moved, the whole packet moved
XferResults == { -1, 0, ShortCount, CmdSize }

SetMin(S) == CHOOSE a \in S : \A b \in S : a <= b
SetMax(S) == CHOOSE a \in S : \A b \in S : a >= b

naga_usb_write(res, size) ==
    IF res < 0 \/ res # size THEN res ELSE 0

\* [ret, tries]: the loop stops at the first transfer of exactly size bytes
naga_usb_read(rs, size) ==
    LET hit == { i \in 1 .. ReadTries : rs[i] >= 0 /\ rs[i] = size }
        tries == IF hit = {} THEN ReadTries ELSE SetMin(hit)
        err == rs[tries]
    IN  [ ret |-> IF err < 0 \/ err # size THEN err ELSE 0,
          tries |-> tries ]

\* the caller's buffer after the read transfers made: a transfer of n bytes
\* overwrites the first n bytes (status at offset 0, values at offset 8)
read_buffer(cmd, x, tries) ==
    LET got == SetMax({0} \cup { x.r[i] : i \in 1 .. tries })
    IN  [ cmd EXCEPT
            !.status = IF got >= 1 THEN x.status ELSE @,
            !.values = IF got >= 10
                       THEN <<x.ver \div 256, x.ver % 256>> \o SubSeq(@, 3, 5)
                       ELSE @ ]

\* the rest of naga_send_command once the write went through: rd is what
\* naga_usb_read returned
send_command_read(cmd, x, rd) ==
    [ ret |-> rd.ret, writes |-> 1, reads |-> rd.tries,
      bad |-> (IF x.w # CmdSize THEN 1 ELSE 0)
              + Cardinality({ i \in 1 .. rd.tries : x.r[i] # CmdSize }),
      cmd |-> read_buffer(cmd, x, rd.tries) ]

\* [ret, writes, reads, bad, cmd]: writes and reads count the transfers
\* made, bad those of them that did not move the whole packet; cmd is the
\* buffer as the caller finds it.  The status of the answer is only logged.
naga_send_command(cmd, x) ==
    IF naga_usb_write(x.w, CmdSize) # 0
    THEN [ ret |-> naga_usb_write(x.w, CmdSize),
           writes |-> 1, reads |-> 0, bad |-> 1, cmd |-> cmd ]
    ELSE send_command_read(cmd, x, naga_usb_read(x.r, CmdSize))

----------------------------------------------------------------------------
(* Driver state and commit machine.  A handler is an operator from the     *)
(* state it reads and its inputs to what it returns and the state it       *)
(* leaves; io is the sequence of exchanges the transport offers, taken in  *)
(* order, one per command sent.                                            *)

\* a null pointer
NULL == -1

\* what a call put on the wire: nothing
NoIO ==
    [ sent |-> <<>>, xfers |-> <<>>, writes |-> 0, reads |-> 0, bad |-> 0 ]

\* a handler that returns ret, leaves the driver state p and did no I/O
Ret(ret, p) ==
    [ ret |-> ret, priv |-> p,
      sent |-> <<>>, xfers |-> <<>>, writes |-> 0, reads |-> 0, bad |-> 0 ]

\* what one naga_send_command did on the wire, given the exchange x it met
\* and its result r: the result of its write transfer, the results of the
\* read transfers it made, what it returned and the buffer it left
Xfer(x, r) ==
    [ w |-> x.w, r |-> SubSeq(x.r, 1, r.reads), ret |-> r.ret, resp |-> r.cmd ]

\* acc after one more naga_send_command, which met x and returned r for cmd
Sent(acc, cmd, x, r) ==
    [ ret |-> r.ret,
      sent |-> Append(acc.sent, cmd),
      xfers |-> Append(acc.xfers, Xfer(x, r)),
      writes |-> acc.writes + r.writes,
      reads |-> acc.reads + r.reads,
      bad |-> acc.bad + r.bad,
      cmd |-> r.cmd ]

\* one naga_send_command inside a handler: acc gathers the commands sent so
\* far and the transfers made; the next exchange of io is consumed
Exchange(acc, cmd, io) ==
    Sent(acc, cmd, io[Len(acc.sent) + 1],
         naga_send_command(cmd, io[Len(acc.sent) + 1]))

\* before the first command of a handler
NoneSent ==
    [ ret |-> 0, sent |-> <<>>, xfers |-> <<>>,
      writes |-> 0, reads |-> 0, bad |-> 0,
      cmd |-> naga_command_init ]

\* the LED loop of naga_do_commit, from led_id on; acc.ret # 0 is the
\* return out of the loop
RECURSIVE commit_leds(_, _, _, _)
commit_leds(p, io, led_id, acc) ==
    IF acc.ret # 0 \/ led_id >= NAGA_NR_LEDS THEN acc
    ELSE commit_leds(p, io, led_id + 1,
             IF p.led_states[led_id] = RAZER_LED_UNKNOWN
             THEN acc
             ELSE Exchange(acc, led_command(p, led_id), io))

\* freq_code with the codes of 125 Hz and 500 Hz exchanged
freq_code_exchanged(frequency) ==
    CASE frequency = RAZER_MOUSE_FREQ_125HZ -> 2
      [] frequency = RAZER_MOUSE_FREQ_500HZ -> 8
      [] frequency = RAZER_MOUSE_FREQ_1000HZ -> 1
      [] frequency = RAZER_MOUSE_FREQ_UNKNOWN -> 1
      [] OTHER -> -EINVAL

\* the switch of naga_do_commit: the device code of a frequency, -EINVAL
\* for the default branch
freq_code(frequency) ==
    CASE frequency = RAZER_MOUSE_FREQ_125HZ -> 8
      [] frequency = RAZER_MOUSE_FREQ_500HZ -> 2
      [] frequency = RAZER_MOUSE_FREQ_1000HZ -> 1
      [] frequency = RAZER_MOUSE_FREQ_UNKNOWN -> 1
      [] OTHER -> -EINVAL

\* the end of naga_do_commit, after the LED loop left acc
commit_freq(p, io, acc) ==
    IF acc.ret # 0 THEN acc
    ELSE IF freq_code(p.frequency) < 0
    THEN [ acc EXCEPT !.ret = freq_code(p.frequency) ]
    ELSE Exchange(acc, freq_command(freq_code(p.frequency)), io)

\* [ret, sent, xfers, writes, reads, bad, cmd]
naga_do_commit(p, io) ==
    commit_freq(p, io,
        commit_leds(p, io, 0,
            Exchange(NoneSent, command_init_resolution(p), io)))

\* commit_done with commit_pending cleared whatever naga_do_commit returned
commit_done_clears(p, r) ==
    [ ret |-> r.ret,
      priv |-> [ p EXCEPT !.commit_pending = FALSE ],
      sent |-> r.sent, xfers |-> r.xfers,
      writes |-> r.writes, reads |-> r.reads, bad |-> r.bad ]

\* naga_commit after naga_do_commit returned r
commit_done(p, r) ==
    [ ret |-> r.ret,
      priv |-> IF r.ret = 0 THEN [ p EXCEPT !.commit_pending = FALSE ] ELSE p,
      sent |-> r.sent, xfers |-> r.xfers,
      writes |-> r.writes, reads |-> r.reads, bad |-> r.bad ]

\* naga_commit without its test of the claim count
naga_commit_unclaimed(cc, p, force, io) ==
    IF p.commit_pending \/ force
    THEN commit_done(p, naga_do_commit(p, io))
    ELSE Ret(0, p)

\* naga_commit without its test of commit_pending and force
naga_commit_unconditional(cc, p, force, io) ==
    IF cc = 0 THEN Ret(-EBUSY, p)
    ELSE commit_done(p, naga_do_commit(p, io))

\* [ret, priv, sent, xfers, writes, reads, bad]
naga_commit(cc, p, force, io) ==
    IF cc = 0 THEN Ret(-EBUSY, p)
    ELSE IF p.commit_pending \/ force
    THEN commit_done(p, naga_do_commit(p, io))
    ELSE Ret(0, p)

\* naga_led_toggle that does not set commit_pending
naga_led_toggle_no_pending(cc, p, id, new_state) ==
    IF id >= NAGA_NR_LEDS THEN Ret(-EINVAL, p)
    ELSE IF new_state # RAZER_LED_OFF /\ new_state # RAZER_LED_ON
    THEN Ret(-EINVAL, p)
    ELSE IF p.led_states[id] = RAZER_LED_UNKNOWN THEN Ret(-EINVAL, p)
    ELSE IF cc = 0 THEN Ret(-EBUSY, p)
    ELSE Ret(0, [ p EXCEPT !.led_states[id] = new_state ])

\* naga_led_toggle that tests the claim count before the LED's state
naga_led_toggle_claim_first(cc, p, id, new_state) ==
    IF id >= NAGA_NR_LEDS THEN Ret(-EINVAL, p)
    ELSE IF new_state # RAZER_LED_OFF /\ new_state # RAZER_LED_ON
    THEN Ret(-EINVAL, p)
    ELSE IF cc = 0 THEN Ret(-EBUSY, p)
    ELSE IF p.led_states[id] = RAZER_LED_UNKNOWN THEN Ret(-EINVAL, p)
    ELSE Ret(0, [ p EXCEPT !.led_states[id] = new_state,
                           !.commit_pending = TRUE ])

\* naga_led_toggle without its test of new_state
naga_led_toggle_any_state(cc, p, id, new_state) ==
    IF id >= NAGA_NR_LEDS THEN Ret(-EINVAL, p)
    ELSE IF p.led_states[id] = RAZER_LED_UNKNOWN THEN Ret(-EINVAL, p)
    ELSE IF cc = 0 THEN Ret(-EBUSY, p)
    ELSE Ret(0, [ p EXCEPT !.led_states[id] = new_state,
                           !.commit_pending = TRUE ])

naga_led_toggle(cc, p, id, new_state) ==
    IF id >= NAGA_NR_LEDS THEN Ret(-EINVAL, p)
    ELSE IF new_state # RAZER_LED_OFF /\ new_state # RAZER_LED_ON
    THEN Ret(-EINVAL, p)
    ELSE IF p.led_states[id] = RAZER_LED_UNKNOWN THEN Ret(-EINVAL, p)
    ELSE IF cc = 0 THEN Ret(-EBUSY, p)
    ELSE Ret(0, [ p EXCEPT !.led_states[id] = new_state,
                           !.commit_pending = TRUE ])

\* naga_set_freq that stores 0 in commit_pending
naga_set_freq_clears(cc, p, freq) ==
    IF cc = 0 THEN Ret(-EBUSY, p)
    ELSE Ret(0, [ p EXCEPT !.frequency = freq,
                           !.commit_pending = FALSE ])

naga_set_freq(cc, p, freq) ==
    IF cc = 0 THEN Ret(-EBUSY, p)
    ELSE Ret(0, [ p EXCEPT !.frequency = freq,
                           !.commit_pending = TRUE ])

\* naga_set_dpimapping that stores the mapping of the Y axis in X as well
naga_set_dpimapping_y_both(cc, p, axis, d) ==
    IF cc = 0 THEN Ret(-EBUSY, p)
    ELSE IF axis # NULL /\ axis >= NAGA_NR_AXES THEN Ret(-EINVAL, p)
    ELSE IF axis # NULL
    THEN IF axis = 0
         THEN Ret(0, [ p EXCEPT !.cur_dpimapping_X = d,
                                !.commit_pending = TRUE ])
         ELSE IF axis = 1
         THEN Ret(0, [ p EXCEPT !.cur_dpimapping_X = d,
                                !.cur_dpimapping_Y = d,
                                !.commit_pending = TRUE ])
         ELSE Ret(-EINVAL, p)
    ELSE Ret(0, [ p EXCEPT !.cur_dpimapping_X = d,
                           !.cur_dpimapping_Y = d,
                           !.commit_pending = TRUE ])

\* naga_set_dpimapping that treats an axis other than X and Y as no axis
naga_set_dpimapping_other_both(cc, p, axis, d) ==
    IF cc = 0 THEN Ret(-EBUSY, p)
    ELSE IF axis # NULL /\ axis >= NAGA_NR_AXES THEN Ret(-EINVAL, p)
    ELSE IF axis = 0
    THEN Ret(0, [ p EXCEPT !.cur_dpimapping_X = d,
                           !.commit_pending = TRUE ])
    ELSE IF axis = 1
    THEN Ret(0, [ p EXCEPT !.cur_dpimapping_Y = d,
                           !.commit_pending = TRUE ])
    ELSE Ret(0, [ p EXCEPT !.cur_dpimapping_X = d,
                           !.cur_dpimapping_Y = d,
                           !.commit_pending = TRUE ])

\* naga_set_dpimapping that tests the axis before the claim count
naga_set_dpimapping_axis_first(cc, p, axis, d) ==
    IF axis # NULL /\ axis >= NAGA_NR_AXES THEN Ret(-EINVAL, p)
    ELSE IF cc = 0 THEN Ret(-EBUSY, p)
    ELSE IF axis # NULL
    THEN IF axis = 0
         THEN Ret(0, [ p EXCEPT !.cur_dpimapping_X = d,
                                !.commit_pending = TRUE ])
         ELSE IF axis = 1
         THEN Ret(0, [ p EXCEPT !.cur_dpimapping_Y = d,
                                !.commit_pending = TRUE ])
         ELSE Ret(-EINVAL, p)
    ELSE Ret(0, [ p EXCEPT !.cur_dpimapping_X = d,
                           !.cur_dpimapping_Y = d,
                           !.commit_pending = TRUE ])

\* axis is the id of the axis pointed to, or NULL; d is the index of the
\* slot of priv->dpimapping pointed to
naga_set_dpimapping(cc, p, axis, d) ==
    IF cc = 0 THEN Ret(-EBUSY, p)
    ELSE IF axis # NULL /\ axis >= NAGA_NR_AXES THEN Ret(-EINVAL, p)
    ELSE IF axis # NULL
    THEN IF axis = 0
         THEN Ret(0, [ p EXCEPT !.cur_dpimapping_X = d,
                                !.commit_pending = TRUE ])
         ELSE IF axis = 1
         THEN Ret(0, [ p EXCEPT !.cur_dpimapping_Y = d,
                                !.commit_pending = TRUE ])
         ELSE Ret(-EINVAL, p)
    ELSE Ret(0, [ p EXCEPT !.cur_dpimapping_X = d,
                           !.cur_dpimapping_Y = d,
                           !.commit_pending = TRUE ])

(* Getters *)

naga_get_fw_version(p) == p.fw_version

naga_get_freq(p) == p.frequency

\* the list naga_get_leds builds, head first: each supported LED is put in
\* front of the ones before it; the call returns the length of the list
RECURSIVE naga_get_leds(_, _, _)
naga_get_leds(p, led_id, list) ==
    IF led_id >= NAGA_NR_LEDS THEN list
    ELSE naga_get_leds(p, led_id + 1,
             IF p.led_states[led_id] = RAZER_LED_UNKNOWN
             THEN list
             ELSE << [ id |-> led_id, state |-> p.led_states[led_id] ] >>
                  \o list)

naga_get_dpimapping(p, axis) ==
    IF axis = NULL \/ axis = 0 THEN p.cur_dpimapping_X
    ELSE IF axis = 1 THEN p.cur_dpimapping_Y
    ELSE NULL

----------------------------------------------------------------------------
(* Attach and detach *)

\* zalloc(sizeof(struct naga_private))
ZeroPriv ==
    [ fw_version |-> 0,
      led_states |-> [ id \in 0 .. (NAGA_NR_LEDS - 1) |-> 0 ],
      frequency |-> 0,
      cur_dpimapping_X |-> NULL,
      cur_dpimapping_Y |-> NULL,
      nb_dpimappings |-> 0,
      command_init_resolution |-> "NULL",
      commit_pending |-> FALSE ]

\* be16_to_cpu of values[0..1] of a packet
fw_ver_of(cmd) == cmd.values[1] * 256 + cmd.values[2]

\* the probe loop of naga_read_fw_ver from attempt i on (attempts count
\* from 1 here); [ret, sent, xfers, writes, reads, bad, cmd]
RECURSIVE read_fw_ver_loop(_, _, _)
RECURSIVE fw_ver_attempt(_, _, _)
read_fw_ver_loop(io, i, acc) ==
    IF i > FwTries
    THEN [ acc EXCEPT !.ret = -ENODEV ]
    ELSE fw_ver_attempt(io, i, Exchange(acc, fw_ver_command, io))

\* fw_ver_attempt without its test of the high byte of the version
fw_ver_attempt_any_version(io, i, a) ==
    IF a.ret = 0
    THEN [ a EXCEPT !.ret = fw_ver_of(a.cmd) ]
    ELSE read_fw_ver_loop(io, i + 1, a)

\* attempt i after its naga_send_command left a
fw_ver_attempt(io, i, a) ==
    IF a.ret = 0 /\ (fw_ver_of(a.cmd) \div 256) % 256 # 0
    THEN [ a EXCEPT !.ret = fw_ver_of(a.cmd) ]
    ELSE read_fw_ver_loop(io, i + 1, a)

naga_read_fw_ver(io) == read_fw_ver_loop(io, 1, NoneSent)

\* init_nb_dpimappings that gives every product the table of the 2014 one
init_nb_dpimappings_all_8200(idProduct) ==
    NAGA_8200_NR_DPIMAPPINGS

\* the number of DPI mappings of a product
init_nb_dpimappings(idProduct) ==
    IF idProduct = RAZER_NAGA_PID_2014
    THEN NAGA_8200_NR_DPIMAPPINGS
    ELSE NAGA_5600_NR_DPIMAPPINGS

\* the slot the loop over the table leaves in cur_dpimapping_X and _Y: the
\* last one whose resolution is 1000
init_cur_dpimapping(nb) ==
    IF \E i \in 0 .. (nb - 1) : dpimapping_res(i) = 1000
    THEN SetMax({ i \in 0 .. (nb - 1) : dpimapping_res(i) = 1000 })
    ELSE NULL

\* the state razer_naga_init sets before its initial commit
init_defaults(idProduct, fwver) ==
    [ fw_version |-> fwver % 65536,
      led_states |->
          [ id \in 0 .. (NAGA_NR_LEDS - 1) |->
              IF id = NAGA_LED_THUMB_GRID /\ idProduct # RAZER_NAGA_PID_2014
              THEN RAZER_LED_UNKNOWN
              ELSE RAZER_LED_ON ],
      frequency |-> RAZER_MOUSE_FREQ_1000HZ,
      cur_dpimapping_X |-> init_cur_dpimapping(init_nb_dpimappings(idProduct)),
      cur_dpimapping_Y |-> init_cur_dpimapping(init_nb_dpimappings(idProduct)),
      nb_dpimappings |-> init_nb_dpimappings(idProduct),
      command_init_resolution |->
          IF idProduct = RAZER_NAGA_PID_2014
          THEN INIT_RESOLUTION_8200
          ELSE INIT_RESOLUTION_5600,
      commit_pending |-> FALSE ]

\* the calls razer_naga_init made on m: claims counts the m->claim calls
\* that took the device, releases the m->release calls
NotClaimed == [ claims |-> 0, releases |-> 0 ]
ClaimedReleased == [ claims |-> 1, releases |-> 1 ]

\* razer_naga_init returning ret with priv freed (err_free); count is the
\* claim count it leaves, io what it put on the wire, calls what it called
\* on m
init_fail(ret, count, io, calls) ==
    [ ret |-> ret, attached |-> FALSE, priv |-> ZeroPriv,
      claim_count |-> count, calls |-> calls,
      sent |-> io.sent, xfers |-> io.xfers,
      writes |-> io.writes, reads |-> io.reads, bad |-> io.bad ]

\* init_commit_done that goes to err_free when the initial commit fails
init_commit_done_no_release(count, p, fw, c) ==
    IF c.ret # 0
    THEN init_fail(c.ret, count,
                   [ sent |-> fw.sent \o c.sent,
                     xfers |-> fw.xfers \o c.xfers,
                     writes |-> fw.writes + c.writes,
                     reads |-> fw.reads + c.reads,
                     bad |-> fw.bad + c.bad ],
                   [ claims |-> 1, releases |-> 0 ])
    ELSE [ ret |-> 0, attached |-> TRUE, priv |-> p,
           claim_count |-> count - 1, calls |-> ClaimedReleased,
           sent |-> fw.sent \o c.sent,
           xfers |-> fw.xfers \o c.xfers,
           writes |-> fw.writes + c.writes,
           reads |-> fw.reads + c.reads,
           bad |-> fw.bad + c.bad ]

\* the end of razer_naga_init: the initial commit of p returned c, after the
\* probe fw; count is the claim count while the device is claimed
init_commit_done(count, p, fw, c) ==
    IF c.ret # 0
    THEN init_fail(c.ret, count - 1,
                   [ sent |-> fw.sent \o c.sent,
                     xfers |-> fw.xfers \o c.xfers,
                     writes |-> fw.writes + c.writes,
                     reads |-> fw.reads + c.reads,
                     bad |-> fw.bad + c.bad ],
                   ClaimedReleased)
    ELSE [ ret |-> 0, attached |-> TRUE, priv |-> p,
           claim_count |-> count - 1, calls |-> ClaimedReleased,
           sent |-> fw.sent \o c.sent,
           xfers |-> fw.xfers \o c.xfers,
           writes |-> fw.writes + c.writes,
           reads |-> fw.reads + c.reads,
           bad |-> fw.bad + c.bad ]

\* razer_naga_init from the defaults on
init_commit(count, p, fw, cio) ==
    init_commit_done(count, p, fw, naga_do_commit(p, cio))

\* razer_naga_init after naga_read_fw_ver returned fw
init_probe_done(count, idProduct, fw, cio) ==
    IF fw.ret < 0
    THEN init_fail(fw.ret, count - 1, fw, ClaimedReleased)
    ELSE init_commit(count, init_defaults(idProduct, fw.ret), fw, cio)

\* env says which of the calls razer_naga_init makes outside the driver
\* fails, if any: "desc" libusb_get_device_descriptor, "alloc" zalloc,
\* "iface" razer_usb_add_used_interface, "claim" m->claim.
\* pio are the exchanges offered to the firmware probe, cio those offered to
\* the initial commit.
\* [ret, attached, priv, claim_count, calls, sent, xfers, writes, reads, bad]
razer_naga_init(cc, idProduct, env, pio, cio) ==
    IF env = "desc" THEN init_fail(-EIO, cc, NoIO, NotClaimed)
    ELSE IF env = "alloc" THEN init_fail(-ENOMEM, cc, NoIO, NotClaimed)
    ELSE IF env = "iface" THEN init_fail(-ENOMEM, cc, NoIO, NotClaimed)
    ELSE IF env = "claim" THEN init_fail(-EBUSY, cc, NoIO, NotClaimed)
    ELSE init_probe_done(cc + 1, idProduct, naga_read_fw_ver(pio), cio)

----------------------------------------------------------------------------
(* Inputs *)

\* an exchange in which every transfer moves the whole packet
OkExch ==
    [ w |-> CmdSize, r |-> <<CmdSize, CmdSize, CmdSize>>,
      status |-> 0, ver |-> FwGood ]

\* what the read transfers of one exchange may return, besides all succeeding
ReadScripts ==
    { <<-1, CmdSize, CmdSize>>,
      <<ShortCount, 0, CmdSize>>,
      <<-1, -1, -1>>,
      <<0, -1, ShortCount>>,
      <<-1, ShortCount, 0>> }

\* the exchanges offered to a commit
ExchIO ==
    { [ OkExch EXCEPT !.w = w ] : w \in XferResults }
    \cup { [ OkExch EXCEPT !.r = r ] : r \in ReadScripts }
    \cup { [ OkExch EXCEPT !.status = st ] : st \in 1 .. BadStatus }

MaxCmds == NAGA_NR_LEDS + 2

\* all exchanges succeeding
OkScript == [ i \in 1 .. MaxCmds |-> OkExch ]

\* every transfer moves the whole packet and every answer carries a status
\* the driver logs as a failure
BadStatusScript ==
    [ i \in 1 .. MaxCmds |-> [ OkExch EXCEPT !.status = BadStatus ] ]

\* at most one exchange of a commit departs from OkExch, or all answer a
\* bad status
CommitScripts ==
    { [ OkScript EXCEPT ![k] = x ] : k \in 1 .. MaxCmds, x \in ExchIO }
    \cup { BadStatusScript }

\* the exchanges offered to the firmware probe: ones that fail or answer a
\* version with a zero high byte, and the good one
ProbeBad ==
    { [ OkExch EXCEPT !.w = -1 ],
      [ OkExch EXCEPT !.r = <<-1, ShortCount, 0>> ],
      [ OkExch EXCEPT !.ver = FwZeroHigh ] }

\* k - 1 bad exchanges, then exchanges g
ProbeScripts ==
    { [ i \in 1 .. FwTries |-> IF i < k THEN f ELSE g ] :
        k \in 1 .. FwTries, f \in ProbeBad, g \in ProbeBad \cup {OkExch} }

\* what an attach meets: a call outside the driver fails, or the probe
\* meets ProbeScripts and the initial commit succeeds, or the probe succeeds
\* at once and the initial commit meets CommitScripts
AttachInputs ==
    { [ env |-> e, pio |-> OkScript, cio |-> OkScript ] :
        e \in { "desc", "alloc", "iface", "claim" } }
    \cup { [ env |-> "ok", pio |-> pio, cio |-> OkScript ] :
             pio \in ProbeScripts }
    \cup { [ env |-> "ok", pio |-> OkScript, cio |-> cio ] :
             cio \in CommitScripts }

FreqArgs ==
    { RAZER_MOUSE_FREQ_UNKNOWN, RAZER_MOUSE_FREQ_125HZ,
      RAZER_MOUSE_FREQ_500HZ, RAZER_MOUSE_FREQ_1000HZ, BadFreq }

AxisArgs == {NULL} \cup (0 .. MaxAxisId)

\* slots of priv->dpimapping handed to set_dpimapping
SlotArgs(p) == { SlotArg, p.nb_dpimappings - 1 }

----------------------------------------------------------------------------
(* The state machine *)

NoCall ==
    [ op |-> "none", args |-> <<>>, ret |-> 0, out |-> <<>>,
      sent |-> <<>>, xfers |-> <<>>, writes |-> 0, reads |-> 0, bad |-> 0,
      pre |-> ZeroPriv, pre_claim |-> 0 ]

\* the driver is single-threaded: a call is made when the one before it
\* has returned to its caller
Idle == last.op = "none"

\* the call op(args) returns r.ret to its caller: last records it with what
\* it put on the wire (r.sent, r.xfers, r.writes, r.reads, r.bad), what it stored through
\* its pointer arguments (out), and the driver state and claim count it was
\* made in
Returns(op, args, r, out) ==
    last' = [ op |-> op, args |-> args, ret |-> r.ret, out |-> out,
              sent |-> r.sent, xfers |-> r.xfers,
              writes |-> r.writes, reads |-> r.reads, bad |-> r.bad,
              pre |-> priv, pre_claim |-> claim_count ]

\* a handler of the driver returns r and leaves the driver state r.priv
Handled(op, args, r) ==
    /\ priv' = r.priv
    /\ Returns(op, args, r, <<>>)
    /\ UNCHANGED <<attached, claim_count>>

\* a getter returns ret, and out through its pointer argument
Got(op, args, ret, out) ==
    /\ Returns(op, args, Ret(ret, priv), out)
    /\ UNCHANGED <<attached, claim_count, priv>>

\* razer_naga_init returns r; out is what it called on its argument m
Inited(args, r) ==
    /\ attached' = r.attached
    /\ priv' = r.priv
    /\ claim_count' = r.claim_count
    /\ Returns("attach", args, r, r.calls)

Init ==
    /\ attached = FALSE
    /\ claim_count = 0
    /\ priv = ZeroPriv
    /\ last = NoCall

\* the caller takes the result of the call
Return ==
    /\ ~Idle
    /\ last' = NoCall
    /\ UNCHANGED <<attached, claim_count, priv>>

Attach ==
    /\ Idle
    /\ ~attached
    /\ \E idProduct \in ProductIds, in \in AttachInputs :
          Inited(<<idProduct, in.env>>,
                 razer_naga_init(claim_count, idProduct,
                                 in.env, in.pio, in.cio))

\* razer_naga_release
Detach ==
    /\ Idle
    /\ attached
    /\ attached' = FALSE
    /\ priv' = ZeroPriv
    /\ Returns("detach", <<>>, Ret(0, priv), <<>>)
    /\ UNCHANGED claim_count

\* m->claim(m): the caller takes the device
Claim ==
    /\ Idle
    /\ claim_count < MaxClaims
    /\ claim_count' = claim_count + 1
    /\ Returns("claim", <<>>, Ret(0, priv), <<>>)
    /\ UNCHANGED <<attached, priv>>

\* m->release(m): the caller gives the device back
Release ==
    /\ Idle
    /\ claim_count > 0
    /\ claim_count' = claim_count - 1
    /\ Returns("release", <<>>, Ret(0, priv), <<>>)
    /\ UNCHANGED <<attached, priv>>

Commit ==
    /\ Idle
    /\ attached
    /\ \E force \in BOOLEAN, io \in CommitScripts :
          Handled("commit", <<force>>,
                  naga_commit(claim_count, priv, force, io))

SetLed ==
    /\ Idle
    /\ attached
    /\ \E id \in 0 .. MaxLedId, new_state \in 0 .. MaxLedState :
          Handled("set_led", <<id, new_state>>,
                  naga_led_toggle(claim_count, priv, id, new_state))

SetFreq ==
    /\ Idle
    /\ attached
    /\ \E freq \in FreqArgs :
          Handled("set_freq", <<freq>>,
                  naga_set_freq(claim_count, priv, freq))

SetDpimapping ==
    /\ Idle
    /\ attached
    /\ \E axis \in AxisArgs, d \in SlotArgs(priv) :
          Handled("set_dpimapping", <<axis, d>>,
                  naga_set_dpimapping(claim_count, priv, axis, d))

GetFwVersion ==
    /\ Idle
    /\ attached
    /\ Got("get_fw_version", <<>>, naga_get_fw_version(priv), <<>>)

GetFreq ==
    /\ Idle
    /\ attached
    /\ Got("get_freq", <<>>, naga_get_freq(priv), <<>>)

GetLeds ==
    /\ Idle
    /\ attached
    /\ Got("get_leds", <<>>, Len(naga_get_leds(priv, 0, <<>>)),
           naga_get_leds(priv, 0, <<>>))

GetDpimapping ==
    /\ Idle
    /\ attached
    /\ \E axis \in AxisArgs :
          Got("get_dpimapping", <<axis>>, naga_get_dpimapping(priv, axis),
              <<>>)

Next ==
    \/ Attach
    \/ Detach
    \/ Claim
    \/ Release
    \/ Commit
    \/ SetLed
    \/ SetFreq
    \/ SetDpimapping
    \/ GetFwVersion
    \/ GetFreq
    \/ GetLeds
    \/ GetDpimapping
    \/ Return

Spec == Init /\ [][Next]_vars

(* The resolution command over the whole table: a claimed device of either *)
(* variant whose X and Y mappings have been set to any two slots of its    *)
(* table, with nothing else changed since attach, is committed.            *)

\* the state set_dpimapping leaves after a commit, for slots x and y
MappingsSet(idProduct, x, y) ==
    [ init_defaults(idProduct, FwGood) EXCEPT
        !.cur_dpimapping_X = x,
        !.cur_dpimapping_Y = y,
        !.commit_pending = TRUE ]

ResolutionInit ==
    /\ attached = TRUE
    /\ claim_count = 1
    /\ last = NoCall
    /\ \E idProduct \in { RAZER_NAGA_PID_CLASSIC, RAZER_NAGA_PID_2014 } :
          \E x, y \in 0 .. (init_nb_dpimappings(idProduct) - 1) :
              priv = MappingsSet(idProduct, x, y)

\* m->commit with every transfer moving the whole packet
CommitOk ==
    /\ Idle
    /\ attached
    /\ \E force \in BOOLEAN :
          Handled("commit", <<force>>,
                  naga_commit(claim_count, priv, force, OkScript))

ResolutionNext ==
    \/ CommitOk
    \/ Return

ResolutionSpec == ResolutionInit /\ [][ResolutionNext]_vars

----------------------------------------------------------------------------
(* Properties.  They are stated of the call the caller holds the result   *)
(* of: last.pre and last.pre_claim are the driver state and the claim     *)
(* count the call was made in, priv the driver state it left.             *)

Mutators == { "set_led", "set_freq", "set_dpimapping" }

ValidFreqs ==
    { RAZER_MOUSE_FREQ_125HZ, RAZER_MOUSE_FREQ_500HZ,
      RAZER_MOUSE_FREQ_1000HZ, RAZER_MOUSE_FREQ_UNKNOWN }

NoTransfers == last.writes = 0 /\ last.reads = 0 /\ last.sent = <<>>

\* which command a packet is: the resolution command (of either variant),
\* the LED command of an LED, the frequency command, the version query
CmdKind(c) ==
    CASE c.request = 1025 /\ c.command = 3 -> [ kind |-> "resolution", led |-> NULL ]
      [] c.request = 1029 /\ c.command = 7 -> [ kind |-> "resolution", led |-> NULL ]
      [] c.request = 768 /\ c.command = 3 ->
           [ kind |-> "led",
             led |-> IF \E id \in DOMAIN naga_leds :
                           naga_leds[id] = SubSeq(c.values, 1, 2)
                     THEN CHOOSE id \in DOMAIN naga_leds :
                              naga_leds[id] = SubSeq(c.values, 1, 2)
                     ELSE NULL ]
      [] c.request = 5 /\ c.command = 1 -> [ kind |-> "frequency", led |-> NULL ]
      [] c.request = 129 /\ c.command = 2 -> [ kind |-> "fw_version", led |-> NULL ]
      [] OTHER -> [ kind |-> "other", led |-> NULL ]

Kinds(sent) == [ i \in 1 .. Len(sent) |-> CmdKind(sent[i]) ]

\* the ids of the LEDs of p that are not unsupported, in increasing order
SupportedLeds(p) ==
    LET Supported(id) == p.led_states[id] # RAZER_LED_UNKNOWN
    IN  SelectSeq([ i \in 1 .. NAGA_NR_LEDS |-> i - 1 ], Supported)

\* the commands of a full commit of p: resolution, one LED command per
\* supported LED in increasing id, frequency
FullCommit(p) ==
    << [ kind |-> "resolution", led |-> NULL ] >>
    \o [ i \in 1 .. Len(SupportedLeds(p)) |->
           [ kind |-> "led", led |-> SupportedLeds(p)[i] ] ]
    \o << [ kind |-> "frequency", led |-> NULL ] >>

IsPrefix(s, t) == Len(s) <= Len(t) /\ SubSeq(t, 1, Len(s)) = s

\* the last call was a commit on a claimed device that ran naga_do_commit
CommitRan ==
    /\ last.op = "commit"
    /\ last.pre_claim > 0
    /\ (last.pre.commit_pending \/ last.args[1])

\* C1: a commit called while the claim count is zero returns the busy error,
\* makes no transfer and leaves the whole driver state (pending, LED states,
\* frequency, DPI mappings) as it was, for both values of force.
C1_CommitUnclaimedBusy ==
    (last.op = "commit" /\ last.pre_claim = 0)
        => /\ last.ret = -EBUSY
           /\ NoTransfers
           /\ priv = last.pre

\* a forced commit of pending changes was refused on an unclaimed device
C1_Witness ==
    /\ last.op = "commit"
    /\ last.pre_claim = 0
    /\ last.args[1] = TRUE
    /\ last.pre.commit_pending
    /\ last.pre.frequency = RAZER_MOUSE_FREQ_125HZ
    /\ last.ret = -EBUSY

\* C2: on a claimed device, commit(force = false) with nothing pending
\* returns success, makes no transfer and leaves the driver state unchanged.
C2_CommitNothingPending ==
    (/\ last.op = "commit"
     /\ last.pre_claim > 0
     /\ last.args[1] = FALSE
     /\ ~last.pre.commit_pending)
        => /\ last.ret = 0
           /\ NoTransfers
           /\ priv = last.pre

\* an unforced commit returned on a claimed device with nothing pending
C2_Witness ==
    /\ last.op = "commit"
    /\ last.pre_claim > 0
    /\ last.args[1] = FALSE
    /\ ~last.pre.commit_pending
    /\ last.ret = 0

\* C3: a commit that runs and in which every transfer moves the whole packet
\* sends exactly the resolution command, one LED command per supported LED
\* in increasing id and the frequency command, in this order, and returns
\* success with pending false.
C3_CommitSendsAll ==
    (CommitRan /\ last.bad = 0)
        => /\ Kinds(last.sent) = FullCommit(last.pre)
           /\ last.ret = 0
           /\ ~priv.commit_pending

\* C4 as claimed: after a commit on a claimed device returned an error of
\* one of its steps, pending is true, whatever pending and force were.
C4_FailedCommitPendingTrue ==
    (CommitRan /\ last.ret # 0) => priv.commit_pending

\* C4 as amended: after a commit on a claimed device returned an error of
\* one of its steps, pending and the rest of the driver state are what they
\* were at the call; the commands sent are an initial part of the full
\* commit, each written once, and nothing follows the failing step.
C4_FailedCommitKeepsState ==
    (CommitRan /\ last.ret # 0)
        => /\ priv = last.pre
           /\ IsPrefix(Kinds(last.sent), FullCommit(last.pre))
           /\ Len(last.sent) >= 1
           /\ last.writes = Len(last.sent)
           /\ last.reads >= Len(last.sent) - 1

\* a forced commit with nothing pending failed after the resolution command
\* went through, and pending is still false
C4_Witness ==
    /\ CommitRan
    /\ last.args[1] = TRUE
    /\ ~last.pre.commit_pending
    /\ last.ret # 0
    /\ Len(last.sent) = 2
    /\ ~priv.commit_pending

\* C5: while the driver is attached, pending goes from true to false only
\* in a commit on a claimed device that returns success after the
\* resolution command, every supported LED's command and the frequency
\* command were sent; no other call and no failed commit clears it.
C5_PendingClearedOnlyByFullCommit ==
    [][ (attached /\ attached' /\ priv.commit_pending
            /\ ~priv'.commit_pending)
          => /\ last'.op = "commit"
             /\ claim_count > 0
             /\ last'.ret = 0
             /\ Kinds(last'.sent) = FullCommit(priv) ]_vars

\* a commit of pending changes succeeded and cleared pending
C5_Witness ==
    /\ last.op = "commit"
    /\ last.pre.commit_pending
    /\ ~priv.commit_pending
    /\ last.ret = 0
    /\ last.pre.led_states[NAGA_LED_SCROLL] = RAZER_LED_OFF

\* C6: a mutator that returns success on a claimed device makes no
\* transfer, changes only the value it targets, and leaves pending true.
C6_MutatorStagesOnly ==
    (last.op \in Mutators /\ last.pre_claim > 0 /\ last.ret = 0)
        => /\ NoTransfers
           /\ priv.commit_pending
           /\ last.op = "set_led" =>
                priv = [ last.pre EXCEPT
                           !.led_states[last.args[1]] = last.args[2],
                           !.commit_pending = TRUE ]
           /\ last.op = "set_freq" =>
                priv = [ last.pre EXCEPT
                           !.frequency = last.args[1],
                           !.commit_pending = TRUE ]
           /\ last.op = "set_dpimapping" =>
                /\ priv = [ last.pre EXCEPT
                              !.cur_dpimapping_X = priv.cur_dpimapping_X,
                              !.cur_dpimapping_Y = priv.cur_dpimapping_Y,
                              !.commit_pending = TRUE ]
                /\ priv.cur_dpimapping_X
                     \in { last.pre.cur_dpimapping_X, last.args[2] }
                /\ priv.cur_dpimapping_Y
                     \in { last.pre.cur_dpimapping_Y, last.args[2] }
                /\ last.args[2]
                     \in { priv.cur_dpimapping_X, priv.cur_dpimapping_Y }

\* the logo LED was switched off on a claimed device with nothing pending
C6_Witness ==
    /\ last.op = "set_led"
    /\ last.pre_claim > 0
    /\ last.ret = 0
    /\ last.args = <<NAGA_LED_LOGO, RAZER_LED_OFF>>
    /\ ~last.pre.commit_pending
    /\ priv.commit_pending

\* the arguments of a set_led that pass the tests naga_led_toggle makes of
\* them: a LED id of the table, a supported LED, the state on or off
LedArgsValid ==
    /\ last.args[1] < NAGA_NR_LEDS
    /\ last.args[2] \in { RAZER_LED_OFF, RAZER_LED_ON }
    /\ last.pre.led_states[last.args[1]] # RAZER_LED_UNKNOWN

\* C7 as claimed: each mutator, for every argument, called while the claim
\* count is zero returns the busy error, makes no transfer and leaves the
\* driver state unchanged.
C7_UnclaimedMutatorBusy ==
    (last.op \in Mutators /\ last.pre_claim = 0)
        => /\ last.ret = -EBUSY
           /\ NoTransfers
           /\ priv = last.pre

\* C7 as amended: a mutator called while the claim count is zero makes no
\* transfer and leaves the driver state unchanged; set_frequency and
\* set_dpi_mapping return the busy error for every argument, set_led returns
\* it when its arguments are valid and invalid-argument when they are not.
C7_UnclaimedMutatorRejected ==
    (last.op \in Mutators /\ last.pre_claim = 0)
        => /\ NoTransfers
           /\ priv = last.pre
           /\ last.op # "set_led" => last.ret = -EBUSY
           /\ last.op = "set_led" =>
                last.ret = IF LedArgsValid THEN -EBUSY ELSE -EINVAL

\* set_dpi_mapping with an axis id out of range was refused as busy on an
\* unclaimed device
C7_Witness ==
    /\ last.op = "set_dpimapping"
    /\ last.pre_claim = 0
    /\ last.args[1] = NAGA_NR_AXES
    /\ last.ret = -EBUSY

\* C8: set_led on a LED whose state is the unsupported sentinel returns
\* invalid-argument for every requested state, claimed or not, and leaves
\* every LED state and pending (the whole driver state) unchanged.
C8_UnsupportedLedRejected ==
    (/\ last.op = "set_led"
     /\ last.args[1] < NAGA_NR_LEDS
     /\ last.pre.led_states[last.args[1]] = RAZER_LED_UNKNOWN)
        => /\ last.ret = -EINVAL
           /\ priv = last.pre

\* switching the unsupported thumb-grid LED on was refused on an unclaimed
\* device
C8_Witness ==
    /\ last.op = "set_led"
    /\ last.args = <<NAGA_LED_THUMB_GRID, RAZER_LED_ON>>
    /\ last.pre.led_states[NAGA_LED_THUMB_GRID] = RAZER_LED_UNKNOWN
    /\ last.pre_claim = 0
    /\ last.ret = -EINVAL

\* C9: set_frequency on a claimed device with a value outside 125 Hz,
\* 500 Hz, 1000 Hz and unspecified returns invalid-argument and leaves the
\* stored frequency and pending unchanged.
C9_BadFrequencyRejected ==
    (/\ last.op = "set_freq"
     /\ last.pre_claim > 0
     /\ last.args[1] \notin ValidFreqs)
        => /\ last.ret = -EINVAL
           /\ priv.frequency = last.pre.frequency
           /\ priv.commit_pending = last.pre.commit_pending

\* the LEDs of p whose state is the unsupported sentinel
UnsupportedLeds(p) ==
    { id \in DOMAIN p.led_states : p.led_states[id] = RAZER_LED_UNKNOWN }

\* C10: while the driver is attached, no call changes the set of LEDs whose
\* state is the unsupported sentinel: an unsupported LED never becomes on
\* or off and a supported LED never becomes unsupported.
C10_UnsupportedLedsFixed ==
    [][ (attached /\ attached')
          => /\ UnsupportedLeds(priv') = UnsupportedLeds(priv)
             /\ \A id \in DOMAIN priv'.led_states :
                  priv'.led_states[id] \in
                    { RAZER_LED_OFF, RAZER_LED_ON, RAZER_LED_UNKNOWN } ]_vars

\* the scroll LED was switched off on a device whose thumb-grid LED is
\* unsupported, which it still is
C10_Witness ==
    /\ last.op = "set_led"
    /\ last.ret = 0
    /\ last.args = <<NAGA_LED_SCROLL, RAZER_LED_OFF>>
    /\ UnsupportedLeds(last.pre) = {NAGA_LED_THUMB_GRID}
    /\ UnsupportedLeds(priv) = {NAGA_LED_THUMB_GRID}

----------------------------------------------------------------------------
(* Attach *)

\* the last call was an attach that got as far as the firmware probe
Probed == last.op = "attach" /\ last.args[2] = "ok"

\* the number of version queries among the commands of the last call
NrProbes ==
    Cardinality({ i \in 1 .. Len(last.sent) :
                    CmdKind(last.sent[i]).kind = "fw_version" })

\* the i-th command of the last call is a version query whose exchange
\* returned success and left a version with a non-zero high byte
ProbeGood(i) ==
    /\ CmdKind(last.sent[i]).kind = "fw_version"
    /\ last.xfers[i].ret = 0
    /\ (fw_ver_of(last.xfers[i].resp) \div 256) % 256 # 0

\* C11: the firmware probe of attach sends at most 5 version queries, all
\* before any other command; it stops at the first attempt whose exchange
\* succeeded with a non-zero high byte in the version, that version is the
\* one the driver reports, and attach goes on to its initial commit; when
\* all 5 attempts fail attach returns not-ready, the device is left
\* unattached and no commit command is sent.
C11_FirmwareProbe ==
    Probed =>
        /\ NrProbes \in 1 .. 5
        /\ \A i \in 1 .. NrProbes :
              CmdKind(last.sent[i]).kind = "fw_version"
        /\ \A i \in 1 .. (NrProbes - 1) : ~ProbeGood(i)
        /\ ProbeGood(NrProbes) =>
              /\ Len(last.sent) > NrProbes
              /\ CmdKind(last.sent[NrProbes + 1]).kind = "resolution"
              /\ attached =>
                    priv.fw_version = fw_ver_of(last.xfers[NrProbes].resp)
        /\ ~ProbeGood(NrProbes) =>
              /\ NrProbes = 5
              /\ last.ret = -ENODEV
              /\ ~attached
              /\ Len(last.sent) = NrProbes

\* four attempts failed, the fifth answered a good version and the device
\* was attached with it
C11_Witness ==
    /\ Probed
    /\ NrProbes = 5
    /\ ProbeGood(5)
    /\ attached
    /\ priv.fw_version = FwGood
    /\ Len(last.sent) > 5

\* the last call was an attach that succeeded
AttachedOk == last.op = "attach" /\ last.ret = 0

\* the resolution command among the commands of the last call
ResolutionSent ==
    { last.sent[i] : i \in { j \in 1 .. Len(last.sent) :
                               CmdKind(last.sent[j]).kind = "resolution" } }

\* the state a successful attach leaves, by the product id it was given
AttachDefaults ==
    AttachedOk =>
        /\ attached
        /\ priv.frequency = 1000
        /\ priv.led_states[NAGA_LED_SCROLL] = RAZER_LED_ON
        /\ priv.led_states[NAGA_LED_LOGO] = RAZER_LED_ON
        /\ IF last.args[1] = RAZER_NAGA_PID_2014
           THEN /\ priv.nb_dpimappings = 82
                /\ priv.command_init_resolution = INIT_RESOLUTION_8200
                /\ ResolutionSent = { naga_command_init_resolution_8200(priv) }
                /\ priv.led_states[NAGA_LED_THUMB_GRID] = RAZER_LED_ON
           ELSE /\ priv.nb_dpimappings = 56
                /\ priv.command_init_resolution = INIT_RESOLUTION_5600
                /\ ResolutionSent = { naga_command_init_resolution_5600(priv) }
                /\ priv.led_states[NAGA_LED_THUMB_GRID] = RAZER_LED_UNKNOWN

\* no step of an attached device changes its slot count or its variant
VariantFixed ==
    (attached /\ attached') =>
        /\ priv'.nb_dpimappings = priv.nb_dpimappings
        /\ priv'.command_init_resolution = priv.command_init_resolution

\* C12: a successful attach leaves a state given by the product id alone:
\* 82 slots, the raw resolution encoding and all three LEDs on for the 2014
\* product, 56 slots, the scaled encoding, scroll and logo LEDs on and the
\* thumb-grid LED unsupported for every other product, 1000 Hz for both;
\* the slot count and the encoding stay the same for as long as the device
\* is attached.
C12_AttachByProduct == []AttachDefaults /\ [][VariantFixed]_vars

\* a 2014 device was attached: 82 slots, raw encoding, thumb-grid LED on
C12_Witness ==
    /\ AttachedOk
    /\ last.args[1] = RAZER_NAGA_PID_2014
    /\ priv.nb_dpimappings = 82
    /\ priv.command_init_resolution = INIT_RESOLUTION_8200
    /\ priv.led_states[NAGA_LED_THUMB_GRID] = RAZER_LED_ON

\* the last call was an attach on one of its failure paths: a call outside
\* the driver failed (the claim among them), the probe found no version, or
\* a command of the initial commit failed
AttachFailurePath ==
    /\ last.op = "attach"
    /\ \/ last.args[2] # "ok"
       \/ ~ProbeGood(NrProbes)
       \/ last.xfers[Len(last.xfers)].ret # 0

\* C13: on every exit path of attach the claim count on return is the one
\* before the call; the claim is taken before the first transfer, released
\* exactly once if it was taken and not released if taking it failed; on
\* every failure path attach returns an error with the driver state freed
\* and the device unattached.
C13_AttachBracketsClaim ==
    (last.op = "attach") =>
        /\ claim_count = last.pre_claim
        /\ last.out.releases = last.out.claims
        /\ (last.writes + last.reads > 0) => last.out.claims = 1
        /\ (last.args[2] = "ok") => last.out.claims = 1
        /\ (last.args[2] # "ok") => (last.out = NotClaimed /\ NoTransfers)
        /\ AttachFailurePath <=> last.ret # 0
        /\ (last.ret # 0) => (~attached /\ priv = ZeroPriv)
        /\ (last.ret = 0) => attached

\* an attach on a device already claimed by its caller failed in its
\* initial commit, after the probe succeeded
C13_Witness ==
    /\ last.op = "attach"
    /\ last.pre_claim = 1
    /\ ProbeGood(NrProbes)
    /\ Len(last.sent) > NrProbes
    /\ last.ret # 0
    /\ last.out = ClaimedReleased
    /\ claim_count = 1

----------------------------------------------------------------------------
(* DPI mappings *)

\* the last call was set_dpi_mapping(axis, d) on a claimed device
SetMappingClaimed(axis) ==
    /\ last.op = "set_dpimapping"
    /\ last.pre_claim > 0
    /\ last.args[1] = axis

\* C14: on a claimed device set_dpi_mapping with axis id 0 replaces only the
\* X mapping and with axis id 1 only the Y mapping; the other axis's
\* mapping, the LED states and the frequency are as before, and
\* get_dpi_mapping for the same axis then returns the mapping just set.
C14_SetMappingOneAxis ==
    /\ SetMappingClaimed(0) =>
          /\ last.ret = 0
          /\ priv.cur_dpimapping_X = last.args[2]
          /\ priv.cur_dpimapping_Y = last.pre.cur_dpimapping_Y
          /\ priv.led_states = last.pre.led_states
          /\ priv.frequency = last.pre.frequency
          /\ naga_get_dpimapping(priv, 0) = last.args[2]
    /\ SetMappingClaimed(1) =>
          /\ last.ret = 0
          /\ priv.cur_dpimapping_Y = last.args[2]
          /\ priv.cur_dpimapping_X = last.pre.cur_dpimapping_X
          /\ priv.led_states = last.pre.led_states
          /\ priv.frequency = last.pre.frequency
          /\ naga_get_dpimapping(priv, 1) = last.args[2]

\* the Y mapping was replaced by one that is neither the old Y mapping nor
\* the X mapping
C14_Witness ==
    /\ SetMappingClaimed(1)
    /\ last.args[2] # last.pre.cur_dpimapping_Y
    /\ last.args[2] # last.pre.cur_dpimapping_X
    /\ priv.cur_dpimapping_Y = last.args[2]

\* the last call was set_dpi_mapping on a claimed device with no axis or
\* with an axis whose id is neither 0 nor 1
SetMappingOtherAxis ==
    /\ last.op = "set_dpimapping"
    /\ last.pre_claim > 0
    /\ last.args[1] \notin {0, 1}

\* the last call stored its mapping in both X and Y and set pending
MappingAppliedToBoth ==
    /\ last.ret = 0
    /\ priv = [ last.pre EXCEPT !.cur_dpimapping_X = last.args[2],
                                !.cur_dpimapping_Y = last.args[2],
                                !.commit_pending = TRUE ]

\* C15: on a claimed device set_dpi_mapping with no axis argument, or with
\* an axis whose id is neither 0 nor 1 (the Scroll axis, id 2, among them),
\* applies the mapping to both X and Y and sets pending.
C15_OtherAxisAppliesToBoth ==
    SetMappingOtherAxis => MappingAppliedToBoth

\* C15, amended: on a claimed device set_dpi_mapping with no axis argument
\* applies the mapping to both X and Y and sets pending; with an axis whose
\* id is neither 0 nor 1 (the Scroll axis, id 2, among them) it returns
\* invalid-argument and leaves the driver state, pending included, as it
\* was.
C15_NoAxisAppliesToBoth ==
    SetMappingOtherAxis =>
        IF last.args[1] = NULL
        THEN MappingAppliedToBoth
        ELSE last.ret = -EINVAL /\ priv = last.pre

\* set_dpi_mapping for the Scroll axis was refused with nothing pending
\* before or after
C15_Witness ==
    /\ SetMappingOtherAxis
    /\ last.args[1] = 2
    /\ last.ret = -EINVAL
    /\ ~last.pre.commit_pending
    /\ ~priv.commit_pending

----------------------------------------------------------------------------
(* Command channel *)

\* the exchanges the last call made, one per command sent
Exchanges == { last.xfers[i] : i \in 1 .. Len(last.xfers) }

\* C16: a write transfer that moves anything but the whole packet (a
\* negative transport error, a short positive count, 0 bytes) makes the
\* write fail: send_command returns an error and makes no read transfer.
C16_IncompleteWriteFails ==
    \A e \in Exchanges :
        (e.w # CmdSize) => (e.ret # 0 /\ e.r = <<>>)

\* no read transfer of the exchange e moved the whole packet
NoFullRead(e) == \A j \in 1 .. Len(e.r) : e.r[j] # CmdSize

\* C17: one send_command makes exactly one write transfer and, only if the
\* write moved the whole packet, between 1 and 3 read transfers; the read
\* stops at the first transfer of exactly the requested size and then
\* succeeds, and send_command returns an error exactly when none of the 3
\* read transfers was of the requested size (a negative error, a short
\* count or 0 bytes on the third try).
C17_ReadRetriesThenFails ==
    /\ last.writes = Len(last.xfers)
    /\ \A e \in Exchanges :
          /\ (e.w # CmdSize) => e.r = <<>>
          /\ (e.w = CmdSize) =>
                /\ Len(e.r) \in 1 .. 3
                /\ \A j \in 1 .. (Len(e.r) - 1) : e.r[j] # CmdSize
                /\ NoFullRead(e) => Len(e.r) = 3
                /\ (e.ret # 0) <=> NoFullRead(e)

\* both the write and the read of the exchange e moved the whole packet
FullExchange(e) == e.w = CmdSize /\ ~NoFullRead(e)

\* every exchange of the last call moved the whole packet both ways and was
\* answered with a status outside {0, 1, 2}
BadStatusOnly ==
    \A e \in Exchanges : FullExchange(e) /\ e.resp.status \notin {0, 1, 2}

\* C18: send_command returns success whenever its write and its read both
\* moved the whole packet, whatever the status byte of the answer; so a
\* commit in which every answer carries a status outside {0, 1, 2} still
\* sends all its commands, returns success and clears pending.
C18_StatusNotAnError ==
    /\ \A e \in Exchanges : FullExchange(e) => e.ret = 0
    /\ (CommitRan /\ BadStatusOnly) =>
          /\ Kinds(last.sent) = FullCommit(last.pre)
          /\ last.ret = 0
          /\ ~priv.commit_pending

----------------------------------------------------------------------------
(* Command encodings *)

\* the last call was a commit that sent its resolution command
ResolutionCommitted ==
    /\ last.op = "commit"
    /\ last.sent # <<>>
    /\ CmdKind(last.sent[1]).kind = "resolution"

\* the DPI of the mappings the last call was made with
DpiX == dpimapping_res(last.pre.cur_dpimapping_X)
DpiY == dpimapping_res(last.pre.cur_dpimapping_Y)

\* the slots of the table of the device
Slots == 0 .. (last.pre.nb_dpimappings - 1)

\* the value bytes the scaled variant sends for slots x and y
ScaledBytes(x, y) ==
    naga_command_init_resolution_5600(
        [ last.pre EXCEPT !.cur_dpimapping_X = x,
                          !.cur_dpimapping_Y = y ]).values

\* C19: the resolution command of a commit encodes the X and Y mappings
\* current at the commit with the variant chosen at attach.  Scaled: value
\* byte 0 is ((dpiX / 100) - 1) * 4 and value byte 1 the same of dpiY, both
\* within a byte and different from the bytes of every other slot of the
\* 56-slot table.  Raw: value bytes 1-2 are dpiX and value bytes 3-4 are
\* dpiY as 16-bit big-endian numbers, for every slot of the 82-slot table.
C19_ResolutionEncoding ==
    ResolutionCommitted =>
        IF last.pre.command_init_resolution = INIT_RESOLUTION_5600
        THEN /\ last.pre.nb_dpimappings = 56
             /\ last.sent[1].request = 1025
             /\ last.sent[1].values[1] = ((DpiX \div 100) - 1) * 4
             /\ last.sent[1].values[2] = ((DpiY \div 100) - 1) * 4
             /\ last.sent[1].values[1] \in 0 .. 255
             /\ last.sent[1].values[2] \in 0 .. 255
             /\ \A s \in Slots :
                   /\ (s # last.pre.cur_dpimapping_X) =>
                         ScaledBytes(s, s)[1] # last.sent[1].values[1]
                   /\ (s # last.pre.cur_dpimapping_Y) =>
                         ScaledBytes(s, s)[2] # last.sent[1].values[2]
             /\ (DpiX = 500 /\ DpiY = 500) =>
                   SubSeq(last.sent[1].values, 1, 2) = <<16, 16>>
        ELSE /\ last.pre.nb_dpimappings = 82
             /\ last.sent[1].request = 1029
             /\ \A k \in 2 .. 5 : last.sent[1].values[k] \in 0 .. 255
             /\ last.sent[1].values[2] * 256 + last.sent[1].values[3] = DpiX
             /\ last.sent[1].values[4] * 256 + last.sent[1].values[5] = DpiY

\* a commit of the scaled variant with X on the last slot of the table,
\* 5600 DPI, and Y on 500 DPI
C19_Witness ==
    /\ ResolutionCommitted
    /\ last.pre.command_init_resolution = INIT_RESOLUTION_5600
    /\ DpiX = 5600
    /\ DpiY = 500
    /\ SubSeq(last.sent[1].values, 1, 2) = <<220, 16>>

\* the frequency commands among the commands of the last call
FrequencySent ==
    { last.sent[i] : i \in { j \in 1 .. Len(last.sent) :
                               CmdKind(last.sent[j]).kind = "frequency" } }

\* the device code of each frequency of the enum
DeviceCode ==
    [ f \in ValidFreqs |->
        CASE f = 125 -> 8
          [] f = 500 -> 2
          [] OTHER -> 1 ]

\* a frequency command of the last call carries the device code of the
\* stored frequency, which is one of the enum
FrequencyEncoded ==
    \A c \in FrequencySent :
        /\ last.pre.frequency \in ValidFreqs
        /\ c.values[1] = DeviceCode[last.pre.frequency]

====
